---- MODULE Spec2Model ----
(***************************************************************************)
(* Model of the labelling session of IPDGS.get_sat (steps 5.3 and 6): the  *)
(* data file, the load-time validity check, the data completion check, and *)
(* the operator-driven labelling loop with its `break` / `back` commands.  *)
(*                                                                         *)
(* Text is modelled cell by cell.  A line of the file is the sequence of   *)
(* its comma-separated cells (what str.split(",") returns); a cell is a    *)
(* pair <<kind, value>>:                                                   *)
(*   <<"n", v>>  the decimal text of the integer v          e.g. "3"       *)
(*   <<"s", v>>  a space followed by the integer v          e.g. " 3"      *)
(*   <<"o", b>>  an opening bracket and a coordinate        e.g. "[3"      *)
(*   <<"c", b>>  a space, a coordinate and a closing bracket e.g. " 3]"    *)
(*   <<"e", 0>>  the empty text                                            *)
(*   <<"t", k>>  the k-th title of the header line                         *)
(* A file is [rows |-> sequence of lines, nl |-> whether the last line is  *)
(* terminated by a newline].                                               *)
(*                                                                         *)
(* The session is the one get_sat runs with label_data set.  One step of   *)
(* the model is everything get_sat does between two blocking prompts.      *)
(* data_handling and misc are not part of the sources at hand: rewrite,    *)
(* blank_entry_check and combine_sort_unique follow their description.     *)
(***************************************************************************)
EXTENDS Integers, Sequences, FiniteSets, TLC

\* ------------------------------------------------------------------ bounds
\* number of chunks the rasters are split into, len(index_chunks[0])
TotalChunks == 3
\* largest number of data rows of the file the session starts from
MaxInitRows == 2
\* largest n the operator types in `back n`
MaxBackArg == 2
\* number of answers the operator gives in one session
MaxAnswers == 5
\* most lines, or cells of a line, on disk when a write is cut short
MaxCut == 1
\* largest number of boxes the selector is asked for
MaxBoxes == 2

\* --------------------------------------------------------------- constants
\* `while n_reservoirs > 5`
MaxReservoirs == 5
\* `while len(entry_list) < 8`
PadLen == 8
\* `lines[j].split(",")[2+num_of_reservoirs]`
ResOffset == 2
\* `lines[j].split(",")[7+num_of_bodies]`
BodyOffset == 7
\* `image = image.resize((500, 500))`, `width, height = image.size`
DisplayWidth == 500
DisplayHeight == 500

\* ------------------------------------------------------------------- cells
N(v) == <<"n", v>>
S(v) == <<"s", v>>
O(b) == <<"o", b>>
C(b) == <<"c", b>>
E == <<"e", 0>>
T(k) == <<"t", k>>

\* the header written at `header = ("chunk,reservoirs,water bodies,...`
Header == <<T(1), T(2), T(3), T(4), E, E, E, E, T(5)>>
\* a line with no text at all: "".split(",") is [""]
BlankLine == <<E>>
\* "0, 1, 0\n", the dummy row of a fresh file
DummyRow == <<N(0), S(1), S(0)>>

\* int(text) succeeds (surrounding white space is ignored by int)
IsIntCell(c) == c[1] \in {"n", "s"}
IntOf(c) == c[2]
\* text[0] == "[" ; the empty text has no character 0
StartsWithBracket(c) == c[1] = "o"

\* seq[k] of Python for a 0-based and possibly negative k
PyHas(seq, k) == IF k >= 0 THEN k + 1 <= Len(seq) ELSE Len(seq) + k >= 0
PyAt(seq, k) == IF k >= 0 THEN seq[k + 1] ELSE seq[Len(seq) + k + 1]

RECURSIVE Flatten(_)
Flatten(ss) == IF ss = <<>> THEN <<>> ELSE Head(ss) \o Flatten(Tail(ss))

\* -------------------------------------------------------------- data file
\* the file with no byte in it
EmptyFile == [rows |-> <<>>, nl |-> FALSE]

\* `file.write(header)` `file.write("0, 1, 0\n")`
\* a new file with the header and no row
FreshFileHeaderOnly == [rows |-> <<Header>>, nl |-> TRUE]
FreshFile == [rows |-> <<Header, DummyRow>>, nl |-> TRUE]

IsBlank(line) == \A k \in 1..Len(line) : line[k] = E

RECURSIVE DropBlank(_)
DropBlank(rows) ==
    IF rows = <<>> THEN <<>>
    ELSE IF IsBlank(Head(rows)) THEN DropBlank(Tail(rows))
         ELSE <<Head(rows)>> \o DropBlank(Tail(rows))

\* data_handling.rewrite: writes the rows one per line, cells joined by ","
rewrite(rows) == [rows |-> rows, nl |-> FALSE]

\* data_handling.blank_entry_check: drops the lines that hold no text
blank_entry_check(f) == rewrite(DropBlank(f.rows))

\* the append with the file opened in mode "w": the entry replaces the file
AppendEntryTruncating(f, entry) == [rows |-> <<BlankLine, entry>>, nl |-> FALSE]

\* `ap.write(f"\n{csv_entry}")`: a newline, then the entry.  After a file
\* that ends in a newline (or has no byte) the newline leaves an empty line.
AppendEntry(f, entry) ==
    IF f.nl \/ f.rows = <<>>
    THEN [rows |-> f.rows \o <<BlankLine, entry>>, nl |-> FALSE]
    ELSE [rows |-> Append(f.rows, entry), nl |-> FALSE]

\* the rewrite with the assignment placed before `i += 1`
ReplaceLineBefore(ls, k, entry) ==
    [rows |-> [ls.rows EXCEPT ![k] = entry],
     nl |-> IF k = Len(ls.rows) THEN TRUE ELSE ls.nl]

\* `lines[i] = f"{csv_entry}\n"` for the 0-based index k of readlines()
ReplaceLine(ls, k, entry) ==
    [rows |-> [ls.rows EXCEPT ![k + 1] = entry],
     nl |-> IF k + 1 = Len(ls.rows) THEN TRUE ELSE ls.nl]

\* `for j in range(n_backs): rows.pop()` then rewrite(rows)
CanPop(f, n) == n <= Len(f.rows)
PopRows(f, n) ==
    IF n <= 0 THEN rewrite(f.rows)
    ELSE rewrite(SubSeq(f.rows, 1, Len(f.rows) - n))

\* int(line.split(",")[0])
ChunkCellOk(line) == Len(line) >= 1 /\ IsIntCell(line[1])
ChunkOf(line) == IntOf(line[1])

\* a check that reads the last line only
FileValidLastOnly(f) == Len(f.rows) >= 1 /\ ChunkCellOk(f.rows[Len(f.rows)])

\* 5.3.1 File validity check: the loop over range(1, len(lines) - 1) and
\* `last_chunk = int(lines[-1].split(",")[0])` run without an exception
FileValid(f) ==
    /\ Len(f.rows) >= 1
    /\ \A k \in 2..(Len(f.rows) - 1) :
          /\ ChunkCellOk(f.rows[k]) /\ ChunkCellOk(f.rows[k + 1])
          /\ ChunkOf(f.rows[k + 1]) - ChunkOf(f.rows[k]) = 1
    /\ ChunkCellOk(f.rows[Len(f.rows)])

LastChunk(f) == ChunkOf(f.rows[Len(f.rows)])

\* nothing printed about contiguity
NoReport == <<0, 0>>

\* the loop index printed as it is
ReportedLineIndex(k) == k - 1
\* `Line {i + 2}` for lines[i], the line at the 1-based place k = i + 1
ReportedLine(k) == k + 1

\* `print(f"Line {i + 2}, expected chunk {current_chunk + 1}")`: the two
\* numbers printed for the first pair that differs by something other than
\* 1; a line that does not parse raises before anything is printed
RECURSIVE ValidityReportFrom(_, _)
ValidityReportFrom(f, k) ==
    IF k > Len(f.rows) - 1 THEN NoReport
    ELSE IF ~(ChunkCellOk(f.rows[k]) /\ ChunkCellOk(f.rows[k + 1])) THEN NoReport
    ELSE IF ChunkOf(f.rows[k + 1]) - ChunkOf(f.rows[k]) # 1
         THEN <<ReportedLine(k), ChunkOf(f.rows[k]) + 1>>
    ELSE ValidityReportFrom(f, k + 1)

ValidityReport(f) == ValidityReportFrom(f, 2)

\* ------------------------------------------------- data completion check
\* `res_coord = lines[j].split(",")[2+num_of_reservoirs]` is reachable and
\* starts with "["; any exception counts as "no coordinates"
CoordAt(line, k) == PyHas(line, k) /\ StartsWithBracket(PyAt(line, k))

ResNoCoords(line) == ~CoordAt(line, ResOffset + IntOf(line[2]))
BodyNoCoords(line) == ~CoordAt(line, BodyOffset + IntOf(line[3]))

ResDefect(line) == IntOf(line[2]) # 0 /\ ResNoCoords(line)
BodyDefect(line) == IntOf(line[3]) # 0 /\ BodyNoCoords(line)

\* int(lines[j].split(",")[1]) and [2] are evaluated outside any try
CountsParse(line) == Len(line) >= 3 /\ IsIntCell(line[2]) /\ IsIntCell(line[3])
AuditRuns(f) == \A j \in 2..Len(f.rows) : CountsParse(f.rows[j])

RECURSIVE ReservoirRowsFrom(_, _)
\* reservoir_rows: j-1 for the lines j (from j, ascending) with the defect
ReservoirRowsFrom(rows, j) ==
    IF j > Len(rows) THEN <<>>
    ELSE IF ResDefect(rows[j]) THEN <<j - 2>> \o ReservoirRowsFrom(rows, j + 1)
         ELSE ReservoirRowsFrom(rows, j + 1)

RECURSIVE BodyRowsFrom(_, _)
\* body_rows, likewise
BodyRowsFrom(rows, j) ==
    IF j > Len(rows) THEN <<>>
    ELSE IF BodyDefect(rows[j]) THEN <<j - 2>> \o BodyRowsFrom(rows, j + 1)
         ELSE BodyRowsFrom(rows, j + 1)

ReservoirRows(f) == ReservoirRowsFrom(f.rows, 2)
BodyRows(f) == BodyRowsFrom(f.rows, 2)

Range(s) == {s[k] : k \in 1..Len(s)}
Min(set) == CHOOSE x \in set : \A y \in set : x <= y

RECURSIVE SortSet(_)
SortSet(set) ==
    IF set = {} THEN <<>>
    ELSE <<Min(set)>> \o SortSet(set \ {Min(set)})

\* misc.combine_sort_unique
combine_sort_unique(a, b) == SortSet(Range(a) \cup Range(b))

\* --------------------------------------------------------- operator input
\* A typed answer is a pair <<kind, n>>:
\*   <<"int", n>> the integer n      <<"break", 0>> a text holding "break"
\*   <<"back", 0>> "back"            <<"backn", n>> "back n"
\*   <<"text", 0>> any other text    <<"empty", 0>> the empty text
NoText == <<"empty", 0>>
IntText(n) == <<"int", n>>
BreakText == <<"break", 0>>
BackText == <<"back", 0>>
BackN(n) == <<"backn", n>>
OtherText == <<"text", 0>>

\* int(text) does not raise
ParsesInt(x) == x[1] = "int"
\* a test for a word no answer holds
HasBreakNever(x) == FALSE
\* "break" in text
HasBreak(x) == x[1] = "break"
\* a test every answer passes
HasBackAlways(x) == TRUE
\* "back" in text
HasBack(x) == x[1] \in {"back", "backn"}
\* `try: n_backs = int(n_reservoirs.split(" ")[1])  except: n_backs = 1`
NBacks(nr) == IF nr[1] = "backn" THEN nr[2] ELSE 1

ResCounts == {-1, 0, 1, 2, MaxReservoirs + 1}
BodyCounts == {0, 1}
BackArgs == (-1)..MaxBackArg
Commands == {BreakText, BackText, OtherText} \cup {BackN(n) : n \in BackArgs}
ResInputs == {IntText(n) : n \in ResCounts} \cup Commands
BodyInputs == {IntText(n) : n \in BodyCounts} \cup Commands
CorruptAnswers == {"quit", "new", "other"}

\* ------------------------------------------------------- box selection
\* coordinates a drawn box can have (one value stands for all four)
Coords == {1}
BoxItem(b) == <<O(b), S(b), S(b), C(b)>>

\* user_interfacing.prompt_roi(image, n): the list of the n confirmed boxes
\* (save_roi refuses a box once len(rois) >= n, finish closes when
\* len(rois) >= n, so a request for n <= 0 returns the empty list)
RoiResults(n) == IF n <= 0 THEN {<<>>} ELSE [1..n -> {BoxItem(b) : b \in Coords}]

\* ------------------------------------------------------------ entry_list
\* An item of entry_list is kept as the cells of its text f"{entry}": an
\* integer or "" is one cell, a box [a, b, c, d] is four
IntItem(v) == <<N(v)>>
EmptyItem == <<E>>

RECURSIVE PadTo(_, _)
\* `while len(entry_list) < 8: entry_list.append("")`
PadTo(items, n) == IF Len(items) >= n THEN items ELSE PadTo(Append(items, EmptyItem), n)

\* lines 421-432: [i, n_reservoirs, ""], the boxes, the padding
ReservoirEntry(cur, n, boxes) == PadTo(<<IntItem(cur), IntItem(n), EmptyItem>> \o boxes, PadLen)

\* lines 437-443: entry_list[2] = n_bodies, then the boxes
BodyEntry(items, m, boxes) == [items EXCEPT ![3] = IntItem(m)] \o boxes

\* lines 494-501: the items joined by ","
CsvEntry(items) == Flatten(items)

\* -------------------------------------------------------------- the state
VARIABLES
    file,               \* the data file on disk
    lines,              \* `lines`, read at line 336 for the completion check
    last_chunk,         \* `last_chunk`
    i,                  \* `i`, the chunk cursor
    data_correction,    \* `data_correction`
    reservoir_rows,     \* `reservoir_rows`
    body_rows,          \* `body_rows`
    invalid_rows,       \* `invalid_rows`
    invalid_rows_index, \* `invalid_rows_index`
    n_reservoirs,       \* `n_reservoirs`
    n_bodies,           \* `n_bodies`
    entry_list,         \* `entry_list`
    pc,                 \* where get_sat is blocked, or how it ended
    inp,                \* history: the answer the last step consumed
    lastOp,             \* history: what the last step did to the file
    corrected,          \* history: rows rewritten by the correction pass
    answers,            \* history: number of answers given so far
    report,             \* history: what the last validity check printed
    perm_checked,       \* history: check_file_permission ran in the last step
    purged,             \* history: blank_entry_check ran after the last append
    \* the box selector, prompt_roi
    roi_n,              \* `n`, the number of boxes asked for
    rois,               \* `rois`, the confirmed boxes
    rects,              \* `rects`, the rectangles drawn for them
    current_roi,        \* `current_roi`, <<>> for None
    current_rect,       \* `current_rect`, "none" for None
    start_xy,           \* `start_x`, `start_y`
    pointer,            \* where the two follower lines cross
    button,             \* the mouse button over the canvas, "up" or "down"
    window,             \* the Tk window, "open" or "closed"
    event,              \* history: the last event handled
    confirmed,          \* history: boxes confirmed and not overwritten since
    \* steps 1 to 3 of get_sat, one pixel of every raster
    image_arrays,       \* `image_arrays`, the five band rasters
    clouds_array,       \* `clouds_array`, the cloud probability raster
    indices,            \* `indices`, <<>> before step 3
    step,               \* the step of get_sat that ran last
    subdirs,            \* the number of folders in GRANULE
    spinner             \* a progress spinner thread is running

sessionVars == <<file, lines, last_chunk, i, data_correction, reservoir_rows,
                 body_rows, invalid_rows, invalid_rows_index, n_reservoirs,
                 n_bodies, entry_list, pc, inp, lastOp, corrected, answers,
                 report, perm_checked, purged>>

selectorVars == <<roi_n, rois, rects, current_roi, current_rect, start_xy,
                  pointer, button, window, event, confirmed>>

bandVars == <<image_arrays, clouds_array, indices, step, subdirs, spinner>>

vars == <<sessionVars, selectorVars, bandVars>>

auditVars == <<lines, last_chunk, data_correction, reservoir_rows, body_rows,
               invalid_rows, invalid_rows_index, corrected>>

\* ------------------------------------------------- files a session meets
RowKinds == {"dummy", "zero", "nobody", "neither"}

\* a data row for chunk k: the dummy row, rows as the session writes them
\* (res5short when the selector window is closed after two of five boxes),
\* and rows that declare a water body without its coordinates
RowOfKind(kind, k) ==
    CASE kind = "dummy" -> <<N(k), S(1), S(0)>>
      [] kind = "zero" -> CsvEntry(BodyEntry(ReservoirEntry(k, 0, <<>>), 0, <<>>))
      [] kind = "res1" -> CsvEntry(BodyEntry(ReservoirEntry(k, 1, <<BoxItem(1)>>), 0, <<>>))
      [] kind = "res2" -> CsvEntry(BodyEntry(ReservoirEntry(k, 2, <<BoxItem(1), BoxItem(1)>>), 0, <<>>))
      [] kind = "res5short" -> CsvEntry(BodyEntry(ReservoirEntry(k, MaxReservoirs,
                                    <<BoxItem(1), BoxItem(1)>>), 0, <<>>))
      [] kind = "nobody" -> <<N(k), N(0), N(1), E, E, E, E, E>>
      [] kind = "neither" -> <<N(k), N(1), N(1), E, E, E, E, E>>

\* first chunk index of a file: 0 for the dummy row of this version, -1 for
\* the sentinel of files that count the first labelled chunk as 0
Bases == {-1, 0}

\* header and n rows for the chunks base, base+1, ...; with gap the last
\* row skips one chunk; with blank an empty line follows the header
MakeFile(base, n, kinds, gap, blank) ==
    [rows |-> <<Header>> \o (IF blank THEN <<BlankLine>> ELSE <<>>)
              \o [k \in 1..n |-> RowOfKind(kinds[k],
                     base + k - 1 + (IF gap /\ k = n /\ n > 1 THEN 1 ELSE 0))],
     nl |-> FALSE]

\* a data row whose first cell is text and not a number
TextRow == <<T(1), N(0), N(0), E, E, E, E, E>>

\* files the validity check has to turn down: a chunk index that repeats,
\* one that decreases, one that is no integer, and the chunks 0, 1, 2, 4
BrokenFiles ==
    {[rows |-> <<Header, RowOfKind("zero", 0), RowOfKind("zero", 0)>>, nl |-> FALSE],
     [rows |-> <<Header, RowOfKind("zero", 0), RowOfKind("zero", 1),
                 RowOfKind("zero", 2), RowOfKind("zero", 4)>>, nl |-> FALSE],
     [rows |-> <<Header, RowOfKind("zero", 1), RowOfKind("zero", 0)>>, nl |-> FALSE],
     [rows |-> <<Header, TextRow, RowOfKind("zero", 1)>>, nl |-> FALSE]}

InitFiles ==
    {EmptyFile}
    \cup {MakeFile(b, n, ks, FALSE, FALSE) :
            b \in Bases, n \in 0..MaxInitRows, ks \in [1..MaxInitRows -> RowKinds]}
    \cup {MakeFile(0, n, [k \in 1..MaxInitRows |-> "zero"], g, bl) :
            n \in 1..MaxInitRows, g \in BOOLEAN, bl \in BOOLEAN}
    \cup {MakeFile(0, 2, <<"res2", "nobody">>, FALSE, FALSE)}
    \cup {MakeFile(0, 1, <<"res5short", "zero">>, FALSE, FALSE)}
    \cup BrokenFiles

\* get_sat before its first statement
SessionStart ==
    /\ lines = EmptyFile
    /\ last_chunk = 0
    /\ i = 0
    /\ data_correction = FALSE
    /\ reservoir_rows = <<>>
    /\ body_rows = <<>>
    /\ invalid_rows = <<>>
    /\ invalid_rows_index = 0
    /\ n_reservoirs = NoText
    /\ n_bodies = NoText
    /\ entry_list = <<>>
    /\ pc = "start"
    /\ inp = NoText
    /\ lastOp = "none"
    /\ corrected = <<>>
    /\ answers = 0
    /\ report = NoReport
    /\ perm_checked = FALSE
    /\ purged = TRUE

\* prompt_roi not called: no window
SelectorIdle ==
    /\ roi_n = 0
    /\ rois = <<>>
    /\ rects = <<>>
    /\ current_roi = <<>>
    /\ current_rect = "none"
    /\ start_xy = <<0, 0>>
    /\ pointer = <<0, 0>>
    /\ button = "up"
    /\ window = "closed"
    /\ event = "none"
    /\ confirmed = <<>>

\* the rasters play no part in the labelling loop or in the selector
NoIndices == <<>>
BandsIdle ==
    /\ image_arrays = <<>>
    /\ clouds_array = 0
    /\ indices = NoIndices
    /\ step = "idle"
    /\ subdirs = 1
    /\ spinner = FALSE

Init ==
    /\ file \in InitFiles
    /\ SessionStart
    /\ SelectorIdle
    /\ BandsIdle

\* ------------------------------------------------------- labelling loop
\* Top of `while i < len(index_chunks[0])` up to `input("how many
\* reservoirs? ")`: the chunk `cur` is plotted (an index below
\* -len(index_chunks[0]) raises IndexError), blank entries are removed, and
\* `n_bodies = ""`, `entry_list = []` are reset.
EnterLoop(f, cur) ==
    /\ i' = cur
    /\ n_reservoirs' = NoText
    /\ n_bodies' = NoText
    /\ entry_list' = <<>>
    /\ IF cur >= TotalChunks THEN pc' = "done" /\ file' = f
       ELSE IF cur < -TotalChunks THEN pc' = "crashed" /\ file' = f
       ELSE pc' = "res_prompt" /\ file' = blank_entry_check(f)

\* the first chunk without `i = invalid_rows[0]`
InitialCursorNoAudit(dc, rows, last) == last + 1

\* `i = last_chunk + 1`, replaced by `i = invalid_rows[0]` in data correction
InitialCursor(dc, rows, last) == IF dc THEN rows[1] ELSE last + 1

\* 5.3.1 and 5.3.2 for the file f just read: validity check, completion
\* check, first chunk
LoadFrom(f) ==
    /\ report' = ValidityReport(f)
    /\ IF FileValid(f) /\ AuditRuns(f)
       THEN LET rr == ReservoirRows(f)
                br == BodyRows(f)
                ir == combine_sort_unique(rr, br)
                dc == rr # <<>> \/ br # <<>>
            IN /\ last_chunk' = LastChunk(f)
               /\ lines' = f
               /\ reservoir_rows' = rr
               /\ body_rows' = br
               /\ invalid_rows' = ir
               /\ data_correction' = dc
               /\ invalid_rows_index' = 0
               /\ corrected' = <<>>
               /\ EnterLoop(f, InitialCursor(dc, ir, LastChunk(f)))
       ELSE /\ pc' = IF FileValid(f) THEN "crashed" ELSE "corrupt"
            /\ file' = f
            /\ UNCHANGED <<auditVars, i, n_reservoirs, n_bodies, entry_list>>

\* get_sat up to its first prompt: blank_entry_check, then the checks
Start ==
    /\ pc = "start"
    /\ UNCHANGED <<selectorVars, bandVars>>
    /\ purged' = TRUE
    /\ answers' = answers
    /\ inp' = NoText
    /\ lastOp' = "load"
    /\ perm_checked' = FALSE
    /\ LoadFrom(blank_entry_check(file))

\* the program run again after `break` ended the previous run: the process
\* keeps nothing, get_sat starts over the file the previous run left
Relaunch ==
    /\ pc = "paused"
    /\ UNCHANGED <<selectorVars, bandVars>>
    /\ purged' = TRUE
    /\ answers' = answers
    /\ inp' = NoText
    /\ lastOp' = "load"
    /\ perm_checked' = FALSE
    /\ LoadFrom(blank_entry_check(file))

\* a prompt that starts a new file whatever the answer
FileAfterAnswerNew(ans, f) == FreshFile
\* `elif ans.lower() == 'new':` the file is written anew; otherwise it is
\* left as it is
FileAfterAnswer(ans, f) == IF ans = "new" THEN FreshFile ELSE f

\* the answer to "press enter to retry: "
CorruptAnswer ==
    /\ pc = "corrupt"
    /\ UNCHANGED <<selectorVars, bandVars>>
    /\ answers < MaxAnswers
    /\ answers' = answers + 1
    /\ \E ans \in CorruptAnswers :
         /\ inp' = <<ans, 0>>
         /\ IF ans = "quit"
            THEN /\ pc' = "quit"
                 /\ lastOp' = "quit"
                 /\ perm_checked' = FALSE
                 /\ UNCHANGED <<file, auditVars, i, n_reservoirs, n_bodies,
                                entry_list, report>>
            ELSE /\ lastOp' = IF ans = "new" THEN "new" ELSE "retry"
                 /\ perm_checked' = FALSE
                 /\ LoadFrom(FileAfterAnswer(ans, file))
    /\ purged' = (purged \/ pc' = "res_prompt")

\* `if n_reservoirs != 0:` and `if n_bodies != 0:`, the test before prompt_roi
SelectorCalled(n) == n # 0

\* `if n_reservoirs != 0: chunk_coords = prompt_roi(tci_chunks[i], n)`
DrawnBoxes(n) == IF SelectorCalled(n) THEN RoiResults(n) ELSE {<<>>}

\* `back` handled without the data_correction test
BackNeverRefused(dc) == FALSE

\* `if data_correction: print("cannot use 'back' ..."); break`
BackRefused(dc) == dc

\* the chunk after a rewrite read at the index before its increment
CursorAfterRewriteSame(idx, rows, last) ==
    IF idx >= Len(rows) THEN last + 1 ELSE rows[idx]

\* lines 508-513: the chunk after a rewrite, idx being the incremented
\* invalid_rows_index
CursorAfterRewrite(idx, rows, last) ==
    IF idx >= Len(rows) THEN last + 1 ELSE rows[idx + 1]

\* The `except:` branch of the inner loop, entered with the texts nr of
\* n_reservoirs and nb of n_bodies; f is the file on disk.
Except(nr, nb, f) ==
    IF HasBreak(nb) \/ HasBreak(nr)
    THEN \* 6.2.2 "break": break_flag = True, the loop ends
         /\ pc' = "paused"
         /\ lastOp' = "break"
         /\ perm_checked' = FALSE
         /\ file' = f
         /\ n_reservoirs' = nr /\ n_bodies' = nb
         /\ UNCHANGED <<auditVars, i, entry_list>>
    ELSE IF HasBack(nb) \/ HasBack(nr)
    THEN \* 6.2.3 "back"
         IF BackRefused(data_correction)
         THEN /\ lastOp' = "back_refused"
              /\ perm_checked' = FALSE
              /\ UNCHANGED auditVars
              /\ EnterLoop(f, i)
         ELSE IF CanPop(f, NBacks(nr))
         THEN /\ lastOp' = "truncate"
              /\ perm_checked' = TRUE
              /\ UNCHANGED auditVars
              /\ EnterLoop(PopRows(f, NBacks(nr)), i - NBacks(nr))
         ELSE \* rows.pop() on an empty list: IndexError leaves get_sat
              /\ pc' = "crashed"
              /\ lastOp' = "pop_error"
              /\ perm_checked' = TRUE
              /\ i' = i - NBacks(nr)
              /\ file' = f
              /\ n_reservoirs' = NoText /\ n_bodies' = NoText /\ entry_list' = <<>>
              /\ UNCHANGED auditVars
    ELSE \* 6.2.4 error: `n_reservoirs = input("how many reservoirs? ")`
         /\ pc' = "res_reprompt_err"
         /\ lastOp' = "reprompt"
         /\ perm_checked' = FALSE
         /\ file' = f
         /\ n_reservoirs' = NoText /\ n_bodies' = nb /\ entry_list' = <<>>
         /\ UNCHANGED <<auditVars, i>>

\* 6.3 Saving Results, after `i += 1`
Commit(items) ==
    LET entry == CsvEntry(items)
        i1 == i + 1
    IN IF data_correction
       THEN LET ls == ReplaceLine(lines, i1, entry)
                idx == invalid_rows_index + 1
            IN /\ lastOp' = "rewrite"
               /\ perm_checked' = TRUE
               /\ lines' = ls
               /\ invalid_rows_index' = idx
               /\ corrected' = Append(corrected, i1 - 1)
               /\ data_correction' = (idx < Len(invalid_rows))
               /\ UNCHANGED <<last_chunk, reservoir_rows, body_rows, invalid_rows>>
               /\ EnterLoop(ls, CursorAfterRewrite(idx, invalid_rows, last_chunk))
       ELSE /\ lastOp' = "append"
            /\ perm_checked' = TRUE
            /\ UNCHANGED auditVars
            /\ EnterLoop(AppendEntry(file, entry), i1)

\* the file 6.3 leaves when it runs to its end
FileAfterCommit(items) ==
    IF data_correction THEN ReplaceLine(lines, i + 1, CsvEntry(items))
    ELSE AppendEntry(file, CsvEntry(items))

\* `with open(data_file, mode="w") as wr:` empties the file, the loop then
\* writes the lines one by one: the file when the process stops in between
RewriteCuts(ls) ==
    {[rows |-> SubSeq(ls.rows, 1, k), nl |-> k > 0] :
        k \in 0..Min({MaxCut, Len(ls.rows) - 1})}

\* `ap.write(f"\n{csv_entry}")` with only the first cells of the entry on
\* disk when the process stops
AppendCuts(f, entry) ==
    {AppendEntry(f, SubSeq(entry, 1, k)) : k \in 1..Min({MaxCut, Len(entry) - 1})}

\* the process is stopped from outside while 6.3 writes the file: nothing
\* of the process is left, the file stays as far as it was written
Interrupted ==
    /\ pc = "body_prompt"
    /\ UNCHANGED <<selectorVars, bandVars>>
    /\ purged' = (purged /\ data_correction)
    /\ answers < MaxAnswers
    /\ answers' = answers + 1
    /\ \E y \in BodyInputs :
         /\ ParsesInt(y)
         /\ \E boxes \in DrawnBoxes(y[2]) :
              LET items == BodyEntry(entry_list, y[2], boxes)
              IN file' \in IF data_correction
                           THEN RewriteCuts(FileAfterCommit(items))
                           ELSE AppendCuts(file, CsvEntry(items))
    /\ pc' = "stopped"
    /\ lastOp' = "stopped"
    /\ perm_checked' = TRUE
    /\ inp' = NoText
    /\ lines' = EmptyFile
    /\ last_chunk' = 0
    /\ i' = 0
    /\ data_correction' = FALSE
    /\ reservoir_rows' = <<>>
    /\ body_rows' = <<>>
    /\ invalid_rows' = <<>>
    /\ invalid_rows_index' = 0
    /\ n_reservoirs' = NoText
    /\ n_bodies' = NoText
    /\ entry_list' = <<>>
    /\ corrected' = <<>>
    /\ report' = NoReport

\* an answer to "how many reservoirs? " of line 410 or line 486, up to the
\* next prompt
ResAnswer ==
    /\ pc \in {"res_prompt", "res_reprompt_err"}
    /\ UNCHANGED <<selectorVars, bandVars>>
    /\ purged' = TRUE
    /\ answers < MaxAnswers
    /\ report' = report
    /\ answers' = answers + 1
    /\ \E x \in ResInputs :
         /\ inp' = x
         /\ LET f == blank_entry_check(file)
            IN IF ParsesInt(x)
               THEN IF x[2] > MaxReservoirs
                    THEN \* "maximum of 5 reservoirs", prompt of line 424
                         /\ pc' = "res_reprompt_max"
                         /\ lastOp' = "reprompt"
                         /\ perm_checked' = FALSE
                         /\ file' = f
                         /\ n_reservoirs' = NoText /\ entry_list' = <<>>
                         /\ UNCHANGED <<auditVars, i, n_bodies>>
                    ELSE \E boxes \in DrawnBoxes(x[2]) :
                         /\ pc' = "body_prompt"
                         /\ lastOp' = "boxes"
                         /\ perm_checked' = FALSE
                         /\ file' = f
                         /\ n_reservoirs' = x
                         /\ entry_list' = ReservoirEntry(i, x[2], boxes)
                         /\ UNCHANGED <<auditVars, i, n_bodies>>
               ELSE Except(x, n_bodies, f)

\* an answer to the prompt of line 424: it stays a str, so the test
\* `n_reservoirs > 5` raises TypeError and the except branch runs
ResMaxAnswer ==
    /\ pc = "res_reprompt_max"
    /\ UNCHANGED <<selectorVars, bandVars>>
    /\ answers < MaxAnswers
    /\ report' = report
    /\ answers' = answers + 1
    /\ \E x \in ResInputs :
         /\ inp' = x
         /\ Except(x, n_bodies, file)
    /\ purged' = (purged \/ pc' = "res_prompt")

\* an answer to "how many non-reservoir water bodies? "
BodyAnswer ==
    /\ pc = "body_prompt"
    /\ UNCHANGED <<selectorVars, bandVars>>
    /\ answers < MaxAnswers
    /\ report' = report
    /\ answers' = answers + 1
    /\ \E y \in BodyInputs :
         /\ inp' = y
         /\ IF ParsesInt(y)
            THEN \E boxes \in DrawnBoxes(y[2]) :
                    Commit(BodyEntry(entry_list, y[2], boxes))
            ELSE Except(n_reservoirs, y, file)
    /\ purged' = (pc' = "res_prompt" \/ (purged /\ lastOp' # "append"))

Next ==
    \/ Start \/ Relaunch \/ CorruptAnswer
    \/ ResAnswer \/ ResMaxAnswer \/ BodyAnswer \/ Interrupted

Spec == Init /\ [][Next]_vars

\* --------------------------------------------------------- the selector
\* prompt_roi(image_array, n) from the open window to its return, one
\* action per Tk event.  The canvas gets the press, the motion with the
\* button held and the release of one mouse button; the two buttons below
\* the canvas are clicked with the mouse button up.
Requests == {-1} \cup 1..MaxBoxes

\* where the mouse can be: left of and above the image, inside it, below
\* it, and right of it
Points ==
    {<<-1, -1>>, <<2, 3>>, <<2, DisplayHeight + 1>>, <<DisplayWidth + 1, 2>>}

PyMin(a, b) == IF a <= b THEN a ELSE b
PyMax(a, b) == IF a >= b THEN a ELSE b

\* `current_roi = (ulx, uly, brx, bry)`
RawBox(s, e) ==
    <<PyMin(s[1], e[1]), PyMin(s[2], e[2]), PyMax(e[1], s[1]), PyMax(e[2], s[2])>>

\* a lower limit that lets every value through
ClampLowNone(v) == v
\* `max(0, int(roi))`
ClampLow(v) == PyMax(0, v)
\* `min(width, int(roi))`, with `width` for all four numbers
ClampHigh(v) == PyMin(DisplayWidth, v)
Clamped(roi) == [k \in 1..4 |-> ClampHigh(ClampLow(roi[k]))]

\* a test that lets every box in
SaveAllowedAlways(rs, n) == TRUE
\* `if len(rois) < n:`
SaveAllowed(rs, n) == Len(rs) < n

\* a pop at the wrong end
PopFirst(s) == Tail(s)
\* `rois.pop()`, `rects.pop()`
PopLast(s) == SubSeq(s, 1, Len(s) - 1)

\* save_roi() with the current selection roi and its rectangle rect
save_roi(roi, rect) ==
    IF SaveAllowed(rois, roi_n) /\ roi # <<>>
    THEN /\ rois' = Append(rois, Clamped(roi))
         /\ rects' = Append(rects, rect)
         /\ confirmed' = Append(confirmed, Clamped(roi))
         /\ current_roi' = <<>>
         /\ current_rect' = "none"
    ELSE /\ current_roi' = roi
         /\ current_rect' = rect
         /\ UNCHANGED <<rois, rects, confirmed>>

\* on_button_press
SelPress ==
    /\ window = "open" /\ button = "up"
    /\ UNCHANGED <<sessionVars, bandVars>>
    /\ \E p \in Points : start_xy' = p
    /\ current_rect' = "rect"
    /\ current_roi' = <<>>
    /\ button' = "down"
    /\ event' = "press"
    /\ UNCHANGED <<roi_n, rois, rects, pointer, window, confirmed>>

\* on_move_press
SelDrag ==
    /\ window = "open" /\ button = "down"
    /\ UNCHANGED <<sessionVars, bandVars>>
    /\ \E p \in Points : pointer' = p
    /\ event' = "drag"
    /\ UNCHANGED <<roi_n, rois, rects, current_roi, current_rect, start_xy,
                   button, window, confirmed>>

\* on_button_release
SelRelease ==
    /\ window = "open" /\ button = "down"
    /\ UNCHANGED <<sessionVars, bandVars>>
    /\ \E p \in Points : save_roi(RawBox(start_xy, p), current_rect)
    /\ button' = "up"
    /\ event' = "release"
    /\ UNCHANGED <<roi_n, start_xy, pointer, window>>

\* overwrite
SelOverwrite ==
    /\ window = "open" /\ button = "up"
    /\ UNCHANGED <<sessionVars, bandVars>>
    /\ IF rois # <<>> /\ rects # <<>>
       THEN /\ rois' = PopLast(rois)
            /\ rects' = PopLast(rects)
            /\ current_rect' = "none"
            /\ current_roi' = <<>>
       ELSE UNCHANGED <<rois, rects, current_rect, current_roi>>
    /\ confirmed' = IF confirmed = <<>> THEN <<>>
                    ELSE SubSeq(confirmed, 1, Len(confirmed) - 1)
    /\ event' = "overwrite"
    /\ UNCHANGED <<roi_n, start_xy, pointer, button, window>>

\* finish
SelFinish ==
    /\ window = "open" /\ button = "up"
    /\ UNCHANGED <<sessionVars, bandVars>>
    /\ IF current_roi # <<>>
       THEN save_roi(current_roi, current_rect)
       ELSE UNCHANGED <<rois, rects, confirmed, current_roi, current_rect>>
    /\ window' = IF Len(rois') < roi_n THEN "open" ELSE "closed"
    /\ event' = "finish"
    /\ UNCHANGED <<roi_n, start_xy, pointer, button>>

\* prompt_roi called with n, its window just opened
SelectorInit ==
    /\ file = EmptyFile
    /\ SessionStart
    /\ roi_n \in Requests
    /\ rois = <<>>
    /\ rects = <<>>
    /\ current_roi = <<>>
    /\ current_rect = "none"
    /\ start_xy = <<0, 0>>
    /\ pointer = <<0, 0>>
    /\ button = "up"
    /\ window = "open"
    /\ event = "none"
    /\ confirmed = <<>>
    /\ BandsIdle

SelectorNext == SelPress \/ SelDrag \/ SelRelease \/ SelOverwrite \/ SelFinish

SelectorSpec == SelectorInit /\ [][SelectorNext]_vars

\* ------------------------------------------------ steps 2 and 3 of get_sat
(* One pixel of each raster is followed through cloud masking and the      *)
(* index arithmetic.  A pixel carries the dtype of its array, because the  *)
(* arithmetic of an array is done in its dtype: image_to_array gives       *)
(* unsigned 16-bit arrays, astype(int) a signed array of at least 32 bits. *)
(* No value of step 3 leaves -2^21..2^21, so the signed arithmetic is      *)
(* exact; every float of step 3 is a multiple of 0.25 far below 2^53, so   *)
(* the float arithmetic is exact as well and is carried in quarters.       *)
UintBits == 16
CloudThreshold == 50
CloudFlag == 100
NBands == 5

\* band values at both ends of the unsigned range and next to them
BandValues == {0, 1, 2, 2^(UintBits - 1), 2^UintBits - 1}
CloudValues == {0, CloudThreshold, CloudThreshold + 1, CloudFlag}

Pixel(t, x) == [dtype |-> t, v |-> x]

\* the value an integer result takes in an array of dtype t
Stored(t, x) == IF t = "uint16" THEN x % (2^UintBits) ELSE x

\* image_array.astype(int)
astype_none(a) == a
astype_int(a) == Pixel("int", a.v)

\* a + b, a - b and k * a on arrays of one dtype
Add(a, b) == Pixel(a.dtype, Stored(a.dtype, a.v + b.v))
Sub(a, b) == Pixel(a.dtype, Stored(a.dtype, a.v - b.v))
Times(k, a) == Pixel(a.dtype, Stored(a.dtype, k * a.v))

\* floats: not-a-number, the infinities, a quotient, and quarters
NaN == <<"nan">>
Inf(sign) == <<"inf", sign>>
Ratio(p, q) == <<"ratio", p, q>>
Sign(x) == IF x < 0 THEN -1 ELSE 1

\* a / b with np.seterr(divide="ignore", invalid="ignore"): no error, 0/0 is
\* nan and x/0 is an infinity
TrueDivide(a, b) ==
    IF b.v # 0 THEN Ratio(a.v, b.v)
    ELSE IF a.v = 0 THEN NaN
    ELSE Inf(Sign(a.v))

\* c * a for a float c of k4 quarters, and an array taken into a float sum
Quarters(k4, a) == k4 * a.v
Float(a) == 4 * a.v

\* step 3: the four indices of the unpacked bands
IndicesOf(arr) ==
    LET blue == arr[1]
        green == arr[2]
        nir == arr[3]
        swir1 == arr[4]
        swir2 == arr[5]
    IN  [ndwi |-> TrueDivide(Sub(green, nir), Add(green, nir)),
         mndwi |-> TrueDivide(Sub(green, swir1), Add(green, swir1)),
         awei_sh |-> Float(green) + Quarters(10, blue)
                        - Quarters(6, Add(nir, swir1)) - Quarters(1, swir2),
         awei_nsh |-> Float(Times(4, Sub(green, swir1)))
                        - (Quarters(1, nir) + Quarters(11, swir2))]

\* mask_sentinel: probabilities above the threshold become the flag, and a
\* flagged pixel is zeroed in every band
ThresholdedAtLeast(c) == IF c >= CloudThreshold THEN CloudFlag ELSE c
Thresholded(c) == IF c > CloudThreshold THEN CloudFlag ELSE c
MaskPixel(c, a) == IF Thresholded(c) = CloudFlag THEN Pixel(a.dtype, 0) ELSE a

\* user_interfacing.start_spinner and end_spinner: the thread runs from the
\* one to the other
start_spinner == TRUE
end_spinner == FALSE

\* the GRANULE folder holds the one folder of the image
LayoutExpected(n) == n = 1

\* step 1: the spinner is started, and on an unexpected GRANULE layout
\* get_sat returns at once; otherwise the band files are opened and the
\* spinner is ended
OpenImages ==
    /\ step = "called"
    /\ IF LayoutExpected(subdirs)
       THEN /\ step' = "opened"
            /\ spinner' = end_spinner
       ELSE /\ step' = "returned"
            /\ spinner' = start_spinner
    /\ UNCHANGED <<image_arrays, clouds_array, indices, subdirs>>
    /\ UNCHANGED <<sessionVars, selectorVars>>

\* step 2
MaskClouds ==
    /\ step = "opened"
    /\ spinner' = end_spinner
    /\ UNCHANGED subdirs
    /\ clouds_array' = Thresholded(clouds_array)
    /\ image_arrays' = [k \in 1..NBands |->
                            MaskPixel(clouds_array, image_arrays[k])]
    /\ step' = "masked"
    /\ UNCHANGED indices
    /\ UNCHANGED <<sessionVars, selectorVars>>

\* step 3
ComputeIndices ==
    /\ step = "masked"
    /\ spinner' = end_spinner
    /\ UNCHANGED subdirs
    /\ image_arrays' = [k \in 1..NBands |-> astype_int(image_arrays[k])]
    /\ indices' = IndicesOf(image_arrays')
    /\ step' = "computed"
    /\ UNCHANGED clouds_array
    /\ UNCHANGED <<sessionVars, selectorVars>>

\* -a on an array
Neg(a) == Pixel(a.dtype, Stored(a.dtype, 0 - a.v))

\* the value np.where puts where a denominator is zero
MinusOne == Ratio(0 - 1, 1)

\* calculation_functions.get_indices, in the dtype of the arrays it is given
get_indices(blue, green, nir, swir1, swir2) ==
    [ndwi |-> IF Add(green, nir).v = 0 THEN MinusOne
              ELSE TrueDivide(Neg(Sub(green, nir)), Add(green, nir)),
     mndwi |-> IF Add(green, swir1).v = 0 THEN MinusOne
               ELSE TrueDivide(Neg(Sub(green, swir1)), Add(green, swir1)),
     awei_sh |-> Float(blue) + Quarters(10, green)
                    - Quarters(6, Add(nir, swir1)) - Quarters(1, swir2),
     awei_nsh |-> 0 - (Float(Times(4, Sub(green, swir1)))
                        - (Quarters(1, nir) + Quarters(11, swir2)))]

\* IPMLS.get_sentinel, steps 1 to 3: the opened arrays go to get_indices as
\* they are (the cloud raster is only displayed, no spinner is used)
get_sentinel ==
    /\ step = "called"
    /\ IF LayoutExpected(subdirs)
       THEN /\ indices' = get_indices(image_arrays[1], image_arrays[2],
                                      image_arrays[3], image_arrays[4],
                                      image_arrays[5])
            /\ step' = "mls_computed"
       ELSE /\ step' = "mls_returned"
            /\ UNCHANGED indices
    /\ UNCHANGED <<image_arrays, clouds_array, subdirs, spinner>>
    /\ UNCHANGED <<sessionVars, selectorVars>>

\* get_sat or get_sentinel called: the rasters as the image files hold them
MaxSubdirs == 2
BandsInit ==
    /\ file = EmptyFile
    /\ SessionStart
    /\ SelectorIdle
    /\ image_arrays \in [1..NBands -> {Pixel("uint16", x) : x \in BandValues}]
    /\ clouds_array \in CloudValues
    /\ indices = NoIndices
    /\ step = "called"
    /\ subdirs \in 0..MaxSubdirs
    /\ spinner = FALSE

BandsNext == OpenImages \/ MaskClouds \/ ComputeIndices \/ get_sentinel

BandsSpec == BandsInit /\ [][BandsNext]_vars

\* ------------------------------------------------------------ properties
\* the data rows as every reader of the file takes them: the lines after the
\* first one
DataRows(f) == IF f.rows = <<>> THEN <<>> ELSE Tail(f.rows)

\* every data row's chunk index is the previous one's plus exactly 1
Contiguous(f) ==
    \A k \in 1..(Len(DataRows(f)) - 1) :
        ChunkOf(DataRows(f)[k + 1]) = ChunkOf(DataRows(f)[k]) + 1

\* the file passed the validity check and the labelling loop was entered
Prompts == {"res_prompt", "res_reprompt_err", "res_reprompt_max", "body_prompt"}
InSession == pc \in Prompts \cup {"paused", "done"}

\* C1: once a file has passed the load-time validity check, the file stays
\* strictly contiguous whatever the operator answers at the count prompts.
C1_ContiguityKept == InSession => Contiguous(file)

\* the n of a typed `back` / `back n`
TypedBack(x) == x[1] \in {"back", "backn"}
TypedN(x) == IF x[1] = "backn" THEN x[2] ELSE 1
TypedInt(x) == x[1] = "int"

\* rows the operator labelled: every data row but the first (the sentinel)
LabelledRows(f) == Len(DataRows(f)) - 1

\* C2: in NORMAL state a completed labelling of chunk c appends exactly one
\* row with chunk index c, keeps every existing row, and moves the cursor
\* to c+1.
C2_AppendOne ==
    [][(pc = "body_prompt" /\ ~data_correction /\ TypedInt(inp'))
        => /\ Len(file'.rows) = Len(file.rows) + 1
           /\ SubSeq(file'.rows, 1, Len(file.rows)) = file.rows
           /\ ChunkOf(file'.rows[Len(file'.rows)]) = i
           /\ i' = i + 1]_vars

C2_Witness ==
    /\ lastOp = "append" /\ pc = "res_prompt" /\ ~data_correction
    /\ ChunkOf(file.rows[Len(file.rows)]) = i - 1

\* C3: in CORRECTION state a commit replaces the text of the data row at
\* the audited index and nothing else: same number of rows, every other
\* row as before, nothing appended.
C3_RewriteOne ==
    [][(pc = "body_prompt" /\ data_correction /\ TypedInt(inp'))
        => /\ Len(file'.rows) = Len(file.rows)
           /\ \A k \in 1..Len(file.rows) :
                 k # i + 2 => file'.rows[k] = file.rows[k]
           /\ file'.rows[i + 2][3] = N(inp'[2])]_vars

C3_Witness ==
    /\ lastOp = "rewrite" /\ corrected # <<>>
    /\ Len(file.rows) >= 3
    /\ file.rows[corrected[Len(corrected)] + 2][3] = N(inp[2])

\* C4: in NORMAL state `back` or `back n` with 1 <= n <= labelled rows
\* removes exactly the last n data rows, keeps the header and the earlier
\* rows, and lowers the cursor by n.
C4_BackRemovesN ==
    [][(pc \in Prompts /\ ~data_correction /\ TypedBack(inp')
        /\ 1 <= TypedN(inp') /\ TypedN(inp') <= LabelledRows(file))
        => /\ file'.rows = SubSeq(file.rows, 1, Len(file.rows) - TypedN(inp'))
           /\ i' = i - TypedN(inp')]_vars

\* the same for the three prompts that read n_reservoirs
BackAtReservoirPrompt ==
    [][(pc \in Prompts \ {"body_prompt"} /\ ~data_correction /\ TypedBack(inp')
        /\ 1 <= TypedN(inp') /\ TypedN(inp') <= LabelledRows(file))
        => /\ file'.rows = SubSeq(file.rows, 1, Len(file.rows) - TypedN(inp'))
           /\ i' = i - TypedN(inp')]_vars

\* C5: a `back n` that asks for more rows than the operator labelled is
\* refused and changes neither the file nor the cursor, so the header and
\* the sentinel row are never removed.
C5_BackBeyondRefused ==
    [][(pc \in Prompts /\ ~data_correction /\ TypedBack(inp')
        /\ TypedN(inp') > LabelledRows(file))
        => /\ file' = file
           /\ i' = i
           /\ pc' \in Prompts]_vars

\* the step just taken was the load (first one, a retry, or after `new`)
JustLoaded == lastOp \in {"load", "new", "retry"} /\ pc \in {"res_prompt", "done"}

\* data row r (0-based) of f declares a count without its coordinates
RowDefective(f, r) == ResDefect(DataRows(f)[r + 1]) \/ BodyDefect(DataRows(f)[r + 1])

\* C6: at session start the state is CORRECTION exactly when the audit list
\* of the loaded file is non-empty; the cursor is then the first entry of
\* the list, and otherwise the last persisted chunk index plus 1.
C6_InitialState ==
    JustLoaded =>
        /\ Range(invalid_rows) = {r \in 0..(Len(DataRows(file)) - 1) : RowDefective(file, r)}
        /\ data_correction <=> invalid_rows # <<>>
        /\ data_correction => i = invalid_rows[1]
        /\ ~data_correction => i = ChunkOf(file.rows[Len(file.rows)]) + 1

C6_Witness == JustLoaded /\ data_correction /\ i = 1 /\ Len(invalid_rows) = 1

\* the step just taken committed the last entry of the audit list
LastRewriteDone == lastOp = "rewrite" /\ invalid_rows_index >= Len(invalid_rows)

\* C7: when the commit of the last audit entry completes, the session is
\* in NORMAL state and the cursor is the chunk index of the last row now in
\* the file plus 1.
C7_BackToNormal ==
    LastRewriteDone =>
        /\ ~data_correction
        /\ i = ChunkOf(file.rows[Len(file.rows)]) + 1

\* the same with the last chunk index as it was read when the file was loaded
BackToNormalLoadTime ==
    LastRewriteDone => ~data_correction /\ i = last_chunk + 1

IsAscending(s) == \A k \in 1..(Len(s) - 1) : s[k] < s[k + 1]

\* C8: the audit list is the ascending duplicate-free union of the two
\* defect lists; the correction pass commits its entries in that order,
\* each at most once, and presents no other row until the list is used up.
C8_AuditOrder ==
    InSession =>
        /\ IsAscending(invalid_rows)
        /\ Range(invalid_rows) = Range(reservoir_rows) \cup Range(body_rows)
        /\ Len(corrected) <= Len(invalid_rows)
        /\ corrected = SubSeq(invalid_rows, 1, Len(corrected))
        /\ (data_correction /\ pc \in Prompts) => i = invalid_rows[Len(corrected) + 1]
        /\ ~data_correction => corrected = invalid_rows

C8_Witness ==
    /\ Len(corrected) = 2 /\ ~data_correction
    /\ reservoir_rows = <<1>> /\ body_rows = <<0, 1>>

\* C9: in CORRECTION state `back`, with or without n, at either count
\* prompt changes nothing: same file, cursor, audit position and state, and
\* the same chunk is prompted for again.
C9_BackRefused ==
    [][(pc \in Prompts /\ data_correction /\ TypedBack(inp'))
        => /\ file' = file
           /\ i' = i
           /\ invalid_rows_index' = invalid_rows_index
           /\ corrected' = corrected
           /\ data_correction'
           /\ pc' = "res_prompt"]_vars

C9_Witness ==
    /\ lastOp = "back_refused" /\ data_correction /\ pc = "res_prompt"
    /\ inp = BackN(2) /\ i = invalid_rows[invalid_rows_index + 1]

\* C10: `break` at either count prompt ends the loop and writes nothing;
\* drawing the reservoir boxes and reaching the body prompt writes nothing
\* either, so the file is the one the chunk was first prompted with.
C10_BreakWritesNothing ==
    [][/\ (pc \in Prompts /\ inp' = BreakText) => (pc' = "paused" /\ file' = file)
       /\ (pc \in Prompts /\ pc' \in Prompts \ {"res_prompt"}) => file' = file]_vars

C10_Witness ==
    /\ pc = "paused" /\ n_bodies = BreakText
    /\ Len(entry_list) = PadLen /\ entry_list[4] = BoxItem(1)

\* C11: after `break` in NORMAL state with the cursor at c, the next launch
\* over the file left behind, when its audit list is empty, starts in NORMAL
\* state with the cursor at c.
C11_ResumeAtCursor ==
    [][(pc = "paused" /\ ~data_correction /\ pc' \in {"res_prompt", "done"}
        /\ invalid_rows' = <<>>)
        => (~data_correction' /\ i' = i)]_vars

JustWrote == lastOp \in {"append", "rewrite"}
WrittenRow ==
    IF lastOp = "append" THEN file.rows[Len(file.rows)]
    ELSE file.rows[corrected[Len(corrected)] + 2]

\* C13: every row the session writes, appended or rewritten, has a
\* reservoir count in 0..5 and a body count of at least 0.
C13_CountsInRange ==
    JustWrote =>
        /\ IntOf(WrittenRow[2]) \in 0..MaxReservoirs
        /\ IntOf(WrittenRow[3]) >= 0

\* number of boxes in a written row
BoxesIn(row) == Cardinality({k \in 1..Len(row) : StartsWithBracket(row[k])})

\* C14: every written row holds as many boxes as its two counts declare;
\* the selector is called only for a count above 0 and the entry then holds
\* exactly that many boxes.
C14_RowsComplete ==
    /\ JustWrote =>
          BoxesIn(WrittenRow) = IntOf(WrittenRow[2]) + IntOf(WrittenRow[3])
    /\ (pc = "body_prompt" /\ SelectorCalled(n_reservoirs[2]))
          => /\ n_reservoirs[2] > 0
             /\ BoxesIn(CsvEntry(entry_list)) = n_reservoirs[2]

\* a line read field by field, a bracketed box being one field
RECURSIVE FieldsFrom(_, _)
FieldsFrom(row, k) ==
    IF k > Len(row) THEN <<>>
    ELSE IF StartsWithBracket(row[k])
         THEN <<SubSeq(row, k, Min({k + 3, Len(row)}))>> \o FieldsFrom(row, k + 4)
         ELSE <<<<row[k]>>>> \o FieldsFrom(row, k + 1)
Fields(row) == FieldsFrom(row, 1)

\* field k (from 0) of the row is there and holds a box
IsBoxField(row, k) ==
    k + 1 \in 1..Len(Fields(row)) /\ StartsWithBracket(Fields(row)[k + 1][1])

\* a row that declares a count above 0 whose field at the offset given by
\* the count is missing or holds no box
DeclaredWithoutBox(row) ==
    \/ IntOf(row[2]) > 0 /\ ~IsBoxField(row, ResOffset + IntOf(row[2]))
    \/ IntOf(row[3]) > 0 /\ ~IsBoxField(row, BodyOffset + IntOf(row[3]))

\* C15: the audit flags data row r exactly when the row declares a
\* reservoir count above 0 without a box in the field at the offset the
\* count gives, or the same for the body count; a row with 2 reservoirs and
\* its 2 boxes followed by a row with 1 body and no box gives [1].
C15_AuditFlags ==
    JustLoaded =>
        Range(invalid_rows) =
            {r \in 0..(Len(DataRows(file)) - 1) : DeclaredWithoutBox(DataRows(file)[r + 1])}

\* the step just taken ran the validity check
JustValidated == lastOp \in {"load", "new", "retry"}

\* every data row starts with an integer
ChunksAreInts(f) == \A k \in 1..Len(DataRows(f)) : ChunkCellOk(DataRows(f)[k])

\* C16: the validity check lets the session go on only if every data row
\* starts with an integer and consecutive data rows differ by exactly +1; a
\* gap, a repeat, a decrease or a non-integer leads to the corruption prompt.
C16_ValidityGate ==
    JustValidated => (pc # "corrupt" => (ChunksAreInts(file) /\ Contiguous(file)))

C16_Witness ==
    /\ lastOp = "load" /\ pc = "corrupt"
    /\ Len(DataRows(file)) = 2 /\ ChunksAreInts(file)
    /\ ChunkOf(DataRows(file)[2]) = ChunkOf(DataRows(file)[1])

\* the chunk indices of the data rows, in file order
ChunkList(f) == [k \in 1..Len(DataRows(f)) |-> ChunkOf(DataRows(f)[k])]

\* the validity check has just turned the file down
JustRejected == JustValidated /\ pc = "corrupt"

\* C17 as stated: for data rows with the chunks 0, 1, 2, 4 the report names
\* row 4 and the expected chunk 3.
C17_ReportRowFour ==
    (JustRejected /\ ChunkList(file) = <<0, 1, 2, 4>>) => report = <<4, 3>>

\* the first line of the file, counted from 1 with the header as line 1,
\* whose chunk index is not the one of the line before plus 1
FirstBrokenLine(f) ==
    Min({k \in 3..Len(f.rows) : ChunkOf(f.rows[k]) # ChunkOf(f.rows[k - 1]) + 1})

\* C17: when contiguity is broken the report names the line number of the
\* offending row, counted from 1 with the header as line 1, and the chunk
\* index expected there; for the chunks 0, 1, 2, 4 that is line 5 and
\* expected chunk 3.
C17_ReportLine ==
    /\ (JustRejected /\ ChunksAreInts(file) /\ Len(DataRows(file)) >= 2)
          => report = <<FirstBrokenLine(file),
                        ChunkOf(file.rows[FirstBrokenLine(file) - 1]) + 1>>
    /\ (JustRejected /\ ChunkList(file) = <<0, 1, 2, 4>>) => report = <<5, 3>>

C17_Witness ==
    JustRejected /\ ChunkList(file) = <<0, 1, 2, 4>> /\ report = <<5, 3>>

\* C18: at the corruption prompt the file changes only on the answer `new`;
\* `quit` ends the session with the file as it was and no labelling; any
\* other answer validates the same file again and asks again.
C18_OnlyNewModifies ==
    [][pc = "corrupt"
        => /\ file' # file => inp' = <<"new", 0>>
           /\ inp' = <<"quit", 0>> => (pc' = "quit" /\ file' = file)
           /\ inp' = <<"other", 0>> => (pc' = "corrupt" /\ file' = file)]_vars

C18_Witness ==
    /\ pc = "quit" /\ lastOp = "quit" /\ answers = 3
    /\ ChunkList(file) = <<0, 1, 2, 4>>

\* C19: after the answer `new` the file is the header and one sentinel row
\* with reservoir count 1 and no coordinates, and the validity check that
\* follows passes, so the corruption prompt is not shown again.
C19_NewFile ==
    lastOp = "new" =>
        /\ Len(file.rows) = 2 /\ file.rows[1] = Header
        /\ Len(file.rows[2]) = 3 /\ IntOf(file.rows[2][2]) = 1
        /\ pc # "corrupt"
        /\ report = NoReport

C19_Witness ==
    /\ lastOp = "new" /\ pc = "res_prompt" /\ inp = <<"new", 0>>
    /\ file.rows = <<Header, DummyRow>>

\* C20: from a file with only the header and the sentinel row, the first
\* labelling (1 reservoir, 0 bodies) is appended as the row of chunk 1,
\* leaves the sentinel row as it was, and moves the cursor to 2.
C20_SentinelKept ==
    [][(file.rows = <<Header, DummyRow>> /\ pc = "body_prompt"
        /\ n_reservoirs = IntText(1) /\ inp' = IntText(0))
        => /\ Len(DataRows(file')) = 2
           /\ DataRows(file')[1] = DummyRow
           /\ ChunkOf(DataRows(file')[2]) = 1
           /\ i' = 2]_vars

\* text[-1] == "]"
EndsWithBracket(c) == c[1] = "c"
\* a cell that holds a whole box, from "[" to "]"
IsBoxCell(c) == StartsWithBracket(c) /\ EndsWithBracket(c)

\* cell k (from 0) of a line read back with split(",")
HasCell(row, k) == k + 1 \in 1..Len(row)
CellAt(row, k) == row[k + 1]

\* C21: a written row, split at the commas, has its three numbers in the
\* cells 0..2, one reservoir box per cell from cell 3 with empty cells up
\* to cell 7, and body box k in cell 8+k.
C21_RowLayout ==
    JustWrote =>
        LET row == WrittenRow
            r == IntOf(row[2])
            b == IntOf(row[3])
        IN /\ \A k \in 0..2 : HasCell(row, k) /\ IsIntCell(CellAt(row, k))
           /\ \A k \in 3..7 :
                 /\ HasCell(row, k)
                 /\ IF k - 3 < r THEN IsBoxCell(CellAt(row, k))
                    ELSE CellAt(row, k) = E
           /\ \A k \in 0..(b - 1) :
                 HasCell(row, 8 + k) /\ IsBoxCell(CellAt(row, 8 + k))

\* the fields of an entry as text, one cell sequence per field, against the
\* cells of the line read back
SameFields(items, row) ==
    /\ Len(row) = Len(items)
    /\ \A k \in 1..Len(items) : items[k] = <<row[k]>>

\* C22: an entry with a reservoir count in 0..5 and a body count of at
\* least 0 that is appended and read back gives the entry again, field by
\* field.
C22_RoundTrip ==
    [][(pc = "body_prompt" /\ ~data_correction /\ TypedInt(inp')
        /\ n_reservoirs[2] \in 0..MaxReservoirs /\ inp'[2] >= 0)
        => \E boxes \in DrawnBoxes(inp'[2]) :
              SameFields(BodyEntry(entry_list, inp'[2], boxes),
                         file'.rows[Len(file'.rows)])]_vars

\* C23: when the process stops while it writes the file, the file left
\* behind is the complete file from before the write or the complete file
\* the write would have produced.
C23_AtomicMutation ==
    [][pc' = "stopped"
        => \/ file' = file
           \/ \E y \in BodyCounts : \E boxes \in DrawnBoxes(y) :
                 file' = FileAfterCommit(BodyEntry(entry_list, y, boxes))]_vars

\* the steps that write the file anew, append to it, rewrite a row of it or
\* drop its last rows
MutatingOps == {"new", "append", "rewrite", "truncate"}

\* C24: a step that resets, appends to, rewrites or truncates the file has
\* run the file-permission check after its prompt and before the write.
C24_PermissionBeforeWrite == lastOp \in MutatingOps => perm_checked

\* the labelling loop has ended, by `break` or at the last chunk, and step 7
\* has read the file
SegmentationRead == pc \in {"done", "paused"}

\* C25: every read of the file, at the validity check and its retries, at
\* the completion check, before a truncation and in step 7, comes after a
\* blank_entry_check that ran later than the last append.
C25_LoadAfterPurge ==
    (JustValidated \/ lastOp = "truncate" \/ SegmentationRead) => purged

\* C26: the chunk the operator is prompted for has an index from 0 to the
\* number of chunks less 1, no row is written for an index outside that
\* range, and at the number of chunks the loop has ended.
C26_CursorInRange ==
    /\ pc \in Prompts => i \in 0..(TotalChunks - 1)
    /\ JustWrote => ChunkOf(WrittenRow) \in 0..(TotalChunks - 1)
    /\ (InSession /\ i >= TotalChunks) => pc \in {"done", "paused"}

\* C27: asked for n >= 1 boxes, the selector never holds more than n
\* confirmed boxes; its window is closed only by Finish with exactly n boxes
\* confirmed, and the list returned is those boxes in the order they were
\* confirmed.
C27_SelectorCount ==
    roi_n >= 1 =>
        /\ Len(rois) <= roi_n
        /\ window = "closed" =>
              /\ event = "finish"
              /\ Len(rois) = roi_n
              /\ rois = confirmed

C27_Witness ==
    /\ window = "closed" /\ roi_n = 2 /\ Len(rois) = 2
    /\ rois[1] # rois[2] /\ current_roi # <<>>

\* C28: every confirmed box, whatever the press and release positions,
\* has 0 <= x_min <= x_max <= display width and 0 <= y_min <= y_max <=
\* display height.
C28_BoxesInBounds ==
    \A k \in 1..Len(rois) :
        /\ 0 <= rois[k][1] /\ rois[k][1] <= rois[k][3] /\ rois[k][3] <= DisplayWidth
        /\ 0 <= rois[k][2] /\ rois[k][2] <= rois[k][4] /\ rois[k][4] <= DisplayHeight

C28_Witness ==
    /\ event = "release" /\ rois # <<>>
    /\ start_xy = <<-1, -1>>
    /\ rois[Len(rois)] = <<0, 0, DisplayWidth, 2>>

\* C29: Overwrite removes the box confirmed last and no other, keeps as
\* many rectangles as boxes, and with no confirmed box leaves the list as
\* it is.
C29_OverwriteLast ==
    [][event' = "overwrite"
        => /\ rois # <<>> => rois' = SubSeq(rois, 1, Len(rois) - 1)
           /\ rois = <<>> => rois' = <<>>
           /\ Len(rects) = Len(rois)
           /\ Len(rects') = Len(rois')]_vars

C29_Witness ==
    /\ event = "overwrite" /\ roi_n = 2
    /\ Len(rois) = 1 /\ Len(rects) = 1 /\ current_rect = "none"

\* the reference formulas on plain integers, the AWEI values in quarters
RefRatio(p, q) == IF q = 0 THEN NaN ELSE Ratio(p, q)
Reference(blue, green, nir, swir1, swir2) ==
    [ndwi |-> RefRatio(green - nir, green + nir),
     mndwi |-> RefRatio(green - swir1, green + swir1),
     awei_sh |-> 4 * green + 10 * blue - 6 * (nir + swir1) - swir2,
     awei_nsh |-> 16 * (green - swir1) - (nir + 11 * swir2)]

IndicesComputed == step \in {"computed", "mls_computed"}

\* C31: on every path that computes the indices the five rasters are of a
\* signed type when the arithmetic runs, none is left unsigned 16-bit
C31_SignedBeforeSubtraction ==
    IndicesComputed =>
        \A k \in 1..NBands : image_arrays[k].dtype # "uint16"


C33_SpinnerStopped == step = "returned" => spinner = FALSE

\* the prompts for a reservoir count
ReservoirPrompts == {"res_prompt", "res_reprompt_err", "res_reprompt_max"}

\* C34: in NORMAL state, whenever the operator is prompted for a reservoir
\* count, the cursor is not negative and is the chunk index of the last row
\* of the file plus 1
C34_CursorFollowsFile ==
    (pc \in ReservoirPrompts /\ ~data_correction) =>
        /\ i >= 0
        /\ DataRows(file) # <<>>
        /\ i = ChunkOf(DataRows(file)[Len(DataRows(file))]) + 1

\* C35: a correction-pass rewrite leaves the chunk index of the row it
\* rewrites as it was, and the chunk shown for that row (the cursor at the
\* prompts) is the chunk index the row stored
C35_RewriteKeepsChunk ==
    [][lastOp' = "rewrite" =>
        /\ ChunkOf(file'.rows[i + 2]) = ChunkOf(lines.rows[i + 2])
        /\ i = ChunkOf(lines.rows[i + 2])]_vars

\* a row as the session writes it for a reservoir count r in 0..5 and a body
\* count b >= 0: r boxes from field 3 on, b boxes from field 8 on, no other
CompleteRow(row) ==
    /\ CountsParse(row)
    /\ IntOf(row[2]) \in 0..MaxReservoirs
    /\ IntOf(row[3]) >= 0
    /\ \A k \in 1..IntOf(row[2]) : IsBoxField(row, ResOffset + k)
    /\ \A k \in 1..IntOf(row[3]) : IsBoxField(row, BodyOffset + k)
    /\ BoxesIn(row) = IntOf(row[2]) + IntOf(row[3])

\* C36: a load flags no data row that holds exactly the boxes its counts
\* declare; so a file whose rows are all complete loads in NORMAL state
C36_CompleteRowsPass ==
    JustLoaded =>
        /\ \A r \in 0..(Len(DataRows(file)) - 1) :
              CompleteRow(DataRows(file)[r + 1]) => r \notin Range(invalid_rows)
        /\ (\A r \in 1..Len(DataRows(file)) : CompleteRow(DataRows(file)[r]))
              => ~data_correction

\* a row holding exactly the boxes its two counts declare, whatever its
\* padding: as many boxes after the counts as the counts add up to
HoldsDeclaredBoxes(row) ==
    /\ CountsParse(row)
    /\ BoxesIn(row) = IntOf(row[2]) + IntOf(row[3])
    /\ \A k \in 1..IntOf(row[2]) : IsBoxField(row, ResOffset + k)

\* C37: when the audit of a file returns the empty list, every data row of
\* the file holds exactly reservoir_count reservoir boxes and body_count
\* body boxes
C37_EmptyAuditMeansComplete ==
    (JustLoaded /\ invalid_rows = <<>>) =>
        \A r \in 1..Len(DataRows(file)) : HoldsDeclaredBoxes(DataRows(file)[r])

\* C38: in NORMAL state `back n` typed at the body-count prompt, with
\* 1 <= n <= labelled rows, removes the last n rows and lowers the cursor
\* by n, as it does at the reservoir prompt
C38_BackAtBodyPrompt ==
    [][(pc = "body_prompt" /\ ~data_correction /\ inp'[1] = "backn"
        /\ inp'[2] \in 1..LabelledRows(file))
        => /\ Len(file'.rows) = Len(file.rows) - inp'[2]
           /\ i' = i - inp'[2]]_vars

\* C39: a reservoir count above 5 leads to a new reservoir prompt with file
\* and cursor unchanged, and an integer in 0..5 answered there is taken as
\* the chunk's reservoir count: the body-count prompt follows
C39_RepromptAccepted ==
    [][/\ (pc \in ReservoirPrompts /\ pc' = "res_reprompt_max")
            => (file' = file /\ i' = i)
       /\ (pc = "res_reprompt_max" /\ inp'[1] = "int"
            /\ inp'[2] \in 0..MaxReservoirs)
            => (pc' = "body_prompt" /\ n_reservoirs' = inp')]_vars

\* two index values that are equal or differ only in sign
UpToSign(a, b) ==
    \/ a = b
    \/ a[1] = "ratio" /\ b[1] = "ratio" /\ b[2] = 0 - a[2] /\ b[3] = a[3]

\* C40: on the arrays of step 3, get_indices gives the AWEI_SH and AWEI_NSH
\* of step 3 and an NDWI and MNDWI equal to those of step 3 up to sign when
\* the denominators are not zero, and the values of step 3 when they are
C40_SameUpToSign ==
    step = "computed" =>
        LET g == get_indices(image_arrays[1], image_arrays[2], image_arrays[3],
                             image_arrays[4], image_arrays[5])
            ndwi_den == image_arrays[2].v + image_arrays[3].v
            mndwi_den == image_arrays[2].v + image_arrays[4].v
        IN  /\ (ndwi_den # 0 /\ mndwi_den # 0) =>
                  /\ g.awei_sh = indices.awei_sh
                  /\ g.awei_nsh = indices.awei_nsh
                  /\ UpToSign(indices.ndwi, g.ndwi)
                  /\ UpToSign(indices.mndwi, g.mndwi)
            /\ ndwi_den = 0 => g.ndwi = indices.ndwi
            /\ mndwi_den = 0 => g.mndwi = indices.mndwi

====
